---- MODULE Spec2Model ----
(***************************************************************************)
(* Blob store on a document collection (blobstore.go): a blob is a set of  *)
(* segments {blobId, seq, data, s, n}.  Write cuts an input stream into    *)
(* chunks and upserts them, Read streams them back through an io.Pipe fed  *)
(* by a goroutine, Size looks at the segment with the highest seq, Remove  *)
(* deletes by id, EnsureIndex creates the unique index under a sync.Once.  *)
(***************************************************************************)
EXTENDS Integers, Sequences, FiniteSets, TLC

VARIABLES
    store,  \* Store.Collection: the set of blobSegment documents
    w,      \* the Write call in progress or last returned
    w2,     \* the Write call of a second goroutine on the same Store
    rd,     \* the Read call: cursor, goroutine, pipe and consumer
    ret,    \* the Size or Remove call that returned last, and its result
    last,   \* per blob id: what the last call that changed it did
    idx,    \* EnsureIndex: the sync.Once, the callers, the index requests
    env     \* what the environment may do in this run

vars == <<store, w, w2, rd, ret, last, idx, env>>

(* ------------------------------ bounds -------------------------------- *)

\* longest input stream, in bytes
MaxLen == 3
\* largest configured Store.ChunkSize
MaxChunk == 2
\* largest buffer the consumer passes to one Read of the stream
MaxBuf == 2
\* Write calls in one run
MaxWrites == 2
\* goroutines that call EnsureIndex on the one Store handle
MaxCallers == 3
\* upserts followed in one Write call (a Write that never returns is cut here)
MaxUpserts == 5

BlobIDs == {"a", "b"}

\* Store.ChunkSize as configured; 0 stands for unset (<= 0)
ChunkSizes == 0..MaxChunk

\* The n bytes of the g-th input stream.  The code never looks at a byte's
\* value, so every byte is given its own value <<g, i>>: a byte that is lost,
\* repeated, moved or left over from another write shows.
Stream(g, n) == [i \in 1..n |-> <<g, i>>]

Min(a, b) == IF a < b THEN a ELSE b

RECURSIVE Flatten(_)
Flatten(ss) == IF ss = <<>> THEN <<>> ELSE Head(ss) \o Flatten(Tail(ss))

(* ------------------------------ constants ----------------------------- *)

\* var DefaultChunkSize = 2048 * 1024
DefaultChunkSize == 2048 * 1024

\* the io.Reader given to Write: nil, or `len` bytes and then how the stream
\* ends ("EOF": io.EOF; "ErrUnexpectedEOF": the stream itself reports
\* io.ErrUnexpectedEOF; "Err": any other error)
NilReader == [nil |-> TRUE, len |-> 0, end |-> "EOF"]
Readers(ends) ==
    {NilReader} \cup [nil : {FALSE}, len : 0..MaxLen, end : ends]

\* what the environment may do in a run: whether store calls may fail
\* (failures), whether input streams may (streams), how many Write calls a
\* client makes (writes) and on which blobs the calls are made (ids)
StreamEnds(e) ==
    IF e.streams THEN {"EOF", "Err", "ErrUnexpectedEOF"} ELSE {"EOF"}
Fails(e) == IF e.failures THEN BOOLEAN ELSE {FALSE}

(* ------------------------------ the store ----------------------------- *)

\* type blobSegment
blobSegment(id, seq, data, start, n) ==
    [ID |-> id, Seq |-> seq, Data |-> data, Start |-> start, N |-> n]

\* Collection.Find(bson.M{"blobId": blobID}): the matching documents
SegmentsOf(coll, id) == {s \in coll : s.ID = id}

\* the sort of Read with the direction of the sort of Size
RECURSIVE SortAscReversed(_)
SortAscReversed(S) ==
    IF S = {} THEN <<>>
    ELSE LET m == CHOOSE x \in S : \A y \in S : x.Seq >= y.Seq
         IN <<m>> \o SortAscReversed(S \ {m})

\* options.Find().SetSort({"seq": 1}): the documents in ascending seq order
RECURSIVE SortAsc(_)
SortAsc(S) ==
    IF S = {} THEN <<>>
    ELSE LET m == CHOOSE x \in S : \A y \in S : x.Seq <= y.Seq
         IN <<m>> \o SortAsc(S \ {m})

\* options.Find().SetSort({"seq": -1}): the documents in descending seq order
RECURSIVE SortDesc(_)
SortDesc(S) ==
    IF S = {} THEN <<>>
    ELSE LET m == CHOOSE x \in S : \A y \in S : x.Seq >= y.Seq
         IN <<m>> \o SortDesc(S \ {m})

\* Collection.ReplaceOne(filter{blobId, seq}, segment, SetUpsert(true))
ReplaceOne(coll, seg) ==
    {s \in coll : ~(s.ID = seg.ID /\ s.Seq = seg.Seq)} \cup {seg}

\* a DeleteMany whose filter has no blobId
DeleteFromAnyBlob(coll, id, seq) == {s \in coll : ~(s.Seq >= seq)}

\* Collection.DeleteMany(bson.M{"blobId": id, "seq": {"$gte": seq}})
DeleteFrom(coll, id, seq) ==
    {s \in coll : ~(s.ID = id /\ s.Seq >= seq)}

\* a DeleteMany whose filter matches no document
DeleteInNothing(coll, ids) == coll

\* a DeleteMany whose filter matches every document
DeleteInAll(coll, ids) == {}

\* Collection.DeleteMany(bson.M{"blobId": {"$in": blobIDs}})
DeleteIn(coll, ids) == {s \in coll : s.ID \notin ids}

(* ------------------------------ Write --------------------------------- *)

\* chunkSize := store.ChunkSize; if chunkSize <= 0 { chunkSize = DefaultChunkSize }
EffectiveChunkSize(c) == IF c <= 0 THEN DefaultChunkSize ELSE c

\* io.ReadAtLeast(data, buf, len(buf)) on a stream holding `bytes` and then
\* ending with `end`: reads until len(buf) bytes are in or the stream ends.
\* n >= min: nil; 0 < n < min at io.EOF: io.ErrUnexpectedEOF; otherwise the
\* stream's own error.
ReadAtLeast(bytes, end, buflen) ==
    LET n == Min(Len(bytes), buflen)
    IN [n    |-> n,
        data |-> SubSeq(bytes, 1, n),
        rest |-> SubSeq(bytes, n + 1, Len(bytes)),
        err  |-> IF n >= buflen THEN "nil"
                 ELSE IF end = "EOF" THEN (IF n > 0 THEN "ErrUnexpectedEOF" ELSE "EOF")
                 ELSE end]

Never == [op |-> "never", data |-> <<>>]
Changed(op) == [op |-> op, data |-> <<>>]

WIdle ==
    [pc |-> "idle", gen |-> 0, id |-> "a", input |-> NilReader, chunk |-> 0,
     rest |-> <<>>, buflen |-> 0, seg |-> <<>>, start |-> 0, seq |-> 0,
     result |-> "none", prev |-> Never, sawErr |-> "none",
     upserts |-> 0, deletes |-> 0]

RdIdle == [call |-> "none"]
RetNone == [op |-> "none"]

\* the goroutine of a Read has exited and the consumer is done with the stream
ReadFinished ==
    IF rd.call # "handle" THEN TRUE
    ELSE rd.wpc = "done" /\ (rd.eof \/ rd.rdClosed)

\* the client is between two calls
ClientFree == w.pc \in {"idle", "done"} /\ ReadFinished

\* the bytes given to the Write call w
InputBytes(x) == Stream(x.gen, x.input.len)

\* the locals of a Write call at line 67, and what is kept of the call for
\* the properties: prev, what had been done to the blob; sawErr, the error
\* the stream itself reported; upserts and deletes, the store calls the
\* Write has made
WriteLocals(g, id, data, c) ==
    [pc |-> "read", gen |-> g, id |-> id, input |-> data,
     chunk |-> c, rest |-> Stream(g, data.len),
     buflen |-> EffectiveChunkSize(c), seg |-> <<>>, start |-> 0,
     seq |-> 0, result |-> "none", prev |-> last[id], sawErr |-> "none",
     upserts |-> 0, deletes |-> 0]

\* Write is called: lines 60-67
WriteCall(id, data, c) ==
    /\ ClientFree
    /\ w.gen < env.writes
    /\ w' = WriteLocals(w.gen + 1, id, data, c)
    /\ last' = [last EXCEPT ![id] = Changed("writing")]
    /\ rd' = RdIdle
    /\ ret' = RetNone
    /\ UNCHANGED <<store, idx, env, w2>>

\* a pass that takes io.ErrUnexpectedEOF for the end of the input and drops
\* the short chunk
ReadChunkDropsTail(x) ==
    IF x.input.nil
    THEN [x EXCEPT !.pc = "done", !.result = "panic"]
    ELSE LET r == ReadAtLeast(x.rest, x.input.end, x.buflen)
         IN IF r.err \in {"ErrUnexpectedEOF", "EOF"}
            THEN [x EXCEPT !.pc = "delete", !.rest = r.rest]
            ELSE IF r.err # "nil"
            THEN [x EXCEPT !.pc = "done", !.result = r.err, !.rest = r.rest]
            ELSE [x EXCEPT !.pc = "upsert", !.rest = r.rest, !.seg = r.data]

\* what one pass of lines 69-79 makes of the Write call x
ReadChunk(x) ==
    IF x.input.nil
    THEN \* data.Read on a nil io.Reader: nil pointer dereference
         [x EXCEPT !.pc = "done", !.result = "panic"]
    ELSE LET r == ReadAtLeast(x.rest, x.input.end, x.buflen)
         IN IF r.err = "ErrUnexpectedEOF"
            THEN [x EXCEPT !.pc = "upsert", !.rest = r.rest, !.buflen = r.n,
                           !.seg = r.data]
            ELSE IF r.err = "EOF"
            THEN [x EXCEPT !.pc = "delete", !.rest = r.rest]
            ELSE IF r.err # "nil"
            THEN [x EXCEPT !.pc = "done", !.result = r.err, !.rest = r.rest]
            ELSE [x EXCEPT !.pc = "upsert", !.rest = r.rest, !.seg = r.data]

\* a Write that returned with `result` leaves its blob written or in between
AfterWrite(x) ==
    IF x.pc # "done" THEN last
    ELSE IF x.result = "nil"
    THEN [last EXCEPT ![x.id] = [op |-> "written", data |-> InputBytes(x)]]
    ELSE [last EXCEPT ![x.id] = Changed("failed")]

\* the error the input stream of x itself reports in the pass to come
StreamErr(x) ==
    IF ~x.input.nil /\ Len(x.rest) < x.buflen /\ x.input.end # "EOF"
    THEN x.input.end
    ELSE x.sawErr

\* one pass of lines 69-79: read a chunk and branch on the error
WriteReadChunk ==
    /\ w.pc = "read"
    /\ w' = [ReadChunk(w) EXCEPT !.sawErr = StreamErr(w)]
    /\ last' = AfterWrite(w')
    /\ UNCHANGED <<store, rd, ret, idx, env, w2>>

\* a segment that is always said to start at offset 0
UpsertSegmentAtZero(x) == blobSegment(x.id, x.seq, x.seg, 0, Len(x.seg))

\* lines 80-83: the segment upserted for the chunk just read
UpsertSegment(x) == blobSegment(x.id, x.seq, x.seg, x.start, Len(x.seg))

\* lines 80-87: the segment is upserted at (blobId, seq); the store may fail
WriteUpsert(fail) ==
    /\ w.pc = "upsert"
    /\ w.upserts < MaxUpserts
    /\ IF fail
       THEN /\ w' = [w EXCEPT !.pc = "done", !.result = "StoreErr",
                              !.upserts = w.upserts + 1]
            /\ store' = store
       ELSE /\ store' = ReplaceOne(store, UpsertSegment(w))
            /\ w' = [w EXCEPT !.pc = "read", !.start = w.start + Len(w.seg),
                              !.seq = w.seq + 1, !.upserts = w.upserts + 1]
    /\ last' = AfterWrite(w')
    /\ UNCHANGED <<rd, ret, idx, env, w2>>

\* line 90: the segments Write deletes once the input is at its end
TruncateFrom(x) == x.seq

\* lines 89-91: the segments from seq on are deleted and Write returns
WriteDelete(fail) ==
    /\ w.pc = "delete"
    /\ IF fail
       THEN /\ w' = [w EXCEPT !.pc = "done", !.result = "StoreErr",
                              !.deletes = w.deletes + 1]
            /\ store' = store
       ELSE /\ store' = DeleteFrom(store, w.id, TruncateFrom(w))
            /\ w' = [w EXCEPT !.pc = "done", !.result = "nil",
                              !.deletes = w.deletes + 1]
    /\ last' = AfterWrite(w')
    /\ UNCHANGED <<rd, ret, idx, env, w2>>

(* ------------------------------ a second writer ---------------------- *)

\* Write is called from a second goroutine while the Write of the first may
\* be in progress (last follows the calls of the first only)
Write2Call(id, data, c) ==
    /\ w2.pc \in {"idle", "done"}
    /\ w2.gen < MaxWrites + env.writes
    /\ w2' = WriteLocals(w2.gen + 1, id, data, c)
    /\ UNCHANGED <<store, w, rd, ret, last, idx, env>>

\* one pass of lines 69-79 of the second Write
Write2ReadChunk ==
    /\ w2.pc = "read"
    /\ w2' = [ReadChunk(w2) EXCEPT !.sawErr = StreamErr(w2)]
    /\ UNCHANGED <<store, w, rd, ret, last, idx, env>>

\* lines 80-87 of the second Write
Write2Upsert(fail) ==
    /\ w2.pc = "upsert"
    /\ w2.upserts < MaxUpserts
    /\ IF fail
       THEN /\ w2' = [w2 EXCEPT !.pc = "done", !.result = "StoreErr",
                                !.upserts = w2.upserts + 1]
            /\ store' = store
       ELSE /\ store' = ReplaceOne(store, UpsertSegment(w2))
            /\ w2' = [w2 EXCEPT !.pc = "read", !.start = w2.start + Len(w2.seg),
                                !.seq = w2.seq + 1, !.upserts = w2.upserts + 1]
    /\ UNCHANGED <<w, rd, ret, last, idx, env>>

\* lines 89-91 of the second Write
Write2Delete(fail) ==
    /\ w2.pc = "delete"
    /\ IF fail
       THEN /\ w2' = [w2 EXCEPT !.pc = "done", !.result = "StoreErr",
                                !.deletes = w2.deletes + 1]
            /\ store' = store
       ELSE /\ store' = DeleteFrom(store, w2.id, TruncateFrom(w2))
            /\ w2' = [w2 EXCEPT !.pc = "done", !.result = "nil",
                                !.deletes = w2.deletes + 1]
    /\ UNCHANGED <<w, rd, ret, last, idx, env>>

(* ------------------------------ Remove -------------------------------- *)

\* Remove(ctx, blobIDs...): nothing is sent for zero ids.  calls: the store
\* calls made
Remove(ids, fail) ==
    /\ ClientFree
    /\ IF ids = {}
       THEN /\ ret' = [op |-> "Remove", ids |-> ids, err |-> "nil", calls |-> 0]
            /\ UNCHANGED <<store, last>>
       ELSE IF fail
       THEN /\ ret' = [op |-> "Remove", ids |-> ids, err |-> "StoreErr", calls |-> 1]
            /\ UNCHANGED <<store, last>>
       ELSE /\ ret' = [op |-> "Remove", ids |-> ids, err |-> "nil", calls |-> 1]
            /\ store' = DeleteIn(store, ids)
            /\ last' = [i \in BlobIDs |->
                          IF i \in ids THEN Changed("removed") ELSE last[i]]
    /\ rd' = RdIdle
    /\ UNCHANGED <<w, idx, env, w2>>

(* ------------------------------ Size ---------------------------------- *)

\* lines 135-137: the size read from the first row of the descending cursor
SizeOf(rows) == rows[1].Start + rows[1].N

\* Size(ctx, blobID): Find sorted by seq descending, first row's s + n
Size(id, fail) ==
    /\ ClientFree
    /\ IF fail
       THEN ret' = [op |-> "Size", id |-> id, n |-> 0, err |-> "StoreErr",
                    cursorOpen |-> FALSE]
       ELSE LET rows == SortDesc(SegmentsOf(store, id))
            IN IF Len(rows) = 0
               THEN ret' = [op |-> "Size", id |-> id, n |-> 0,
                            err |-> "ErrNotFound", cursorOpen |-> FALSE]
               ELSE ret' = [op |-> "Size", id |-> id, n |-> SizeOf(rows),
                            err |-> "nil", cursorOpen |-> TRUE]
    /\ rd' = RdIdle
    /\ UNCHANGED <<store, w, last, idx, env, w2>>

(* ------------------------------ Read ---------------------------------- *)

\* Read(ctx, blobID), lines 98-106 and 122: the pipe is made, the cursor is
\* opened on the segments in ascending seq order; no first row: the cursor is
\* closed and ErrNotFound returned; otherwise the goroutine is started and
\* the read end of the pipe returned.
\*   rows, pos     the cursor: the rows of the query and the current one
\*   wpc           where the goroutine is
\*   pending       the bytes of the wr.Write in progress the consumer has not taken
\*   wrClosed      wr.Close() was called;  rdClosed: the consumer closed the handle
\*   got, eof      what the consumer received, and whether it saw io.EOF
\*   taken         the bytes of the wr.Write in progress the consumer has taken
\*   cancelled     ctx is cancelled;  cursorErr: cursor.Next ended before the last row
\*   expect        what the last call that changed the blob had done to it
\*   seg           segment.Data, the payload decoded last
ReadCall(id, fail) ==
    /\ ClientFree
    /\ ret' = RetNone
    /\ IF fail
       THEN rd' = [call |-> "StoreErr", id |-> id, cursorOpen |-> FALSE,
                   expect |-> last[id]]
       ELSE LET rows == SortAsc(SegmentsOf(store, id))
            IN IF Len(rows) = 0
               THEN rd' = [call |-> "ErrNotFound", id |-> id, cursorOpen |-> FALSE,
                           expect |-> last[id]]
               ELSE rd' = [call |-> "handle", id |-> id, cursorOpen |-> TRUE,
                           expect |-> last[id], rows |-> rows, pos |-> 1,
                           wpc |-> "decode", pending |-> <<>>, wrClosed |-> FALSE,
                           rdClosed |-> FALSE, cancelled |-> FALSE, got |-> <<>>,
                           eof |-> FALSE, cursorErr |-> FALSE, taken |-> 0,
                           seg |-> <<>>]
    /\ UNCHANGED <<store, w, last, idx, env, w2>>

\* lines 111-112 and 116-117: the row is decoded and wr.Write(segment.Data)
\* begins.  The error of cursor.Decode is dropped: when it fails, segment
\* keeps what it held and that is written.
WorkerDecode(fail) ==
    /\ rd.call = "handle" /\ rd.wpc = "decode"
    /\ LET data == IF fail THEN rd.seg ELSE rd.rows[rd.pos].Data
       IN rd' = [rd EXCEPT !.wpc = "write", !.seg = data, !.pending = data,
                           !.taken = 0, !.cursorErr = rd.cursorErr \/ fail]
    /\ UNCHANGED <<store, w, ret, last, idx, env, w2>>

\* a hand-over that gives up the bytes one Read did not take
PipeRemainderDropped(b, n) == <<>>

\* what is left of the bytes of a wr.Write after the consumer took n of them
PipeRemainder(b, n) == SubSeq(b, n + 1, Len(b))

\* a hand-over that returns as soon as one Read has taken bytes
WriteReturnsEarly(left) == TRUE

\* wr.Write returns nil: no byte of segment.Data is left to take
WriteReturns(left) == left = <<>>

\* the consumer calls Read with a buffer of k bytes while the goroutine is in
\* wr.Write: it gets the first min(k, len) pending bytes, and wr.Write
\* returns once every byte is taken (a Write of zero bytes also waits for one
\* Read)
PipeTransfer(k) ==
    /\ rd.call = "handle" /\ rd.wpc = "write"
    /\ ~rd.rdClosed
    /\ LET n == Min(k, Len(rd.pending))
           left == PipeRemainder(rd.pending, n)
       IN rd' = [rd EXCEPT !.got = rd.got \o SubSeq(rd.pending, 1, n),
                           !.pending = left,
                           !.taken = rd.taken + n,
                           !.wpc = IF WriteReturns(left) THEN "next" ELSE "write"]
    /\ UNCHANGED <<store, w, ret, last, idx, env, w2>>

\* a hand-over that does not see the read end close
WriteErrNever(r) == FALSE

\* wr.Write returns an error: the read end of the pipe r is closed
WriteErr(r) == r.rdClosed

\* lines 112-114, 117-119: wr.Write fails and the goroutine returns
WorkerWriteFails ==
    /\ rd.call = "handle" /\ rd.wpc = "write"
    /\ WriteErr(rd)
    /\ rd' = [rd EXCEPT !.wpc = "closeCursor"]
    /\ UNCHANGED <<store, w, ret, last, idx, env, w2>>

\* the row cursor.Next moves to from row p
NextRow(p) == p + 1

\* line 115: cursor.Next(ctx).  more: it moved to the next row.  It is false
\* at the end of the rows, when the store fails, and when ctx is cancelled
\* and the row has to be fetched; a row already fetched is returned under a
\* cancelled ctx too.
WorkerNext(more, fail) ==
    /\ rd.call = "handle" /\ rd.wpc = "next"
    /\ more => rd.pos < Len(rd.rows) /\ ~fail
    /\ ~more => rd.pos = Len(rd.rows) \/ fail \/ rd.cancelled
    /\ rd' = IF more
             THEN [rd EXCEPT !.pos = NextRow(rd.pos), !.wpc = "decode"]
             ELSE [rd EXCEPT !.wpc = "closeCursor",
                             !.cursorErr = rd.cursorErr \/ rd.pos < Len(rd.rows)]
    /\ UNCHANGED <<store, w, ret, last, idx, env, w2>>

\* line 109: defer cursor.Close(context.Background())
WorkerCloseCursor ==
    /\ rd.call = "handle" /\ rd.wpc = "closeCursor"
    /\ rd' = [rd EXCEPT !.wpc = "closePipe", !.cursorOpen = FALSE]
    /\ UNCHANGED <<store, w, ret, last, idx, env, w2>>

\* line 108: defer wr.Close()
WorkerClosePipe ==
    /\ rd.call = "handle" /\ rd.wpc = "closePipe"
    /\ rd' = [rd EXCEPT !.wpc = "done", !.wrClosed = TRUE]
    /\ UNCHANGED <<store, w, ret, last, idx, env, w2>>

\* the consumer's Read after wr.Close(): io.EOF
ConsumerEOF ==
    /\ rd.call = "handle"
    /\ rd.wrClosed /\ ~rd.rdClosed /\ ~rd.eof
    /\ rd' = [rd EXCEPT !.eof = TRUE]
    /\ UNCHANGED <<store, w, ret, last, idx, env, w2>>

\* the consumer closes the handle Read returned
ConsumerClose ==
    /\ rd.call = "handle"
    /\ ~rd.rdClosed
    /\ rd' = [rd EXCEPT !.rdClosed = TRUE]
    /\ UNCHANGED <<store, w, ret, last, idx, env, w2>>

\* the context given to Read is cancelled while the stream is open
CancelCtx ==
    /\ rd.call = "handle"
    /\ ~rd.cancelled /\ ~rd.eof /\ ~rd.rdClosed
    /\ rd' = [rd EXCEPT !.cancelled = TRUE]
    /\ UNCHANGED <<store, w, ret, last, idx, env, w2>>

(* ------------------------------ EnsureIndex --------------------------- *)

Callers == 1..MaxCallers

\* EnsureIndex is called by goroutine c: err, the named result, is nil
IndexCall(c) ==
    /\ idx.pc[c] = "idle"
    /\ idx' = [idx EXCEPT !.pc[c] = "Do", !.err[c] = "nil"]
    /\ UNCHANGED <<store, w, rd, ret, last, env, w2>>

\* whether Once.Do goes on to run f, given Once.done
OnceRuns(done) == ~done

\* store.index.Do, fast path: done is read without the lock
IndexDo(c) ==
    /\ idx.pc[c] = "Do"
    /\ idx' = [idx EXCEPT !.pc[c] = IF OnceRuns(idx.done) THEN "lock" ELSE "returned"]
    /\ UNCHANGED <<store, w, rd, ret, last, env, w2>>

\* Once.doSlow: the mutex is taken, done is read again, f is called when it
\* is still unset: lines 37-38, the CreateOne request is sent
IndexLock(c) ==
    /\ idx.pc[c] = "lock"
    /\ idx.mu = 0
    /\ idx' = IF OnceRuns(idx.done)
              THEN [idx EXCEPT !.mu = c, !.pc[c] = "CreateOne",
                               !.requests = idx.requests + 1,
                               !.inflight = idx.inflight + 1]
              ELSE [idx EXCEPT !.mu = c, !.pc[c] = "unlock"]
    /\ UNCHANGED <<store, w, rd, ret, last, env, w2>>

\* a guard that is set only when the request succeeded
OnceDoneOnSuccess(failed) == ~failed

\* Once.done once f has returned
OnceDone(failed) == TRUE

\* a closure that drops the error of CreateOne
CreateErrDropped(fail) == "nil"

\* line 38: _, err = ix.CreateOne(...) assigns the named result
CreateErr(fail) == IF fail THEN "StoreErr" ELSE "nil"

\* line 38: CreateOne returns, err is set; f returns and Once sets done
IndexCreateOne(c, fail) ==
    /\ idx.pc[c] = "CreateOne"
    /\ idx' = [idx EXCEPT !.pc[c] = "unlock",
                          !.err[c] = CreateErr(fail),
                          !.inflight = idx.inflight - 1,
                          !.created = idx.created \/ ~fail,
                          !.failed = idx.failed \/ fail,
                          !.done = OnceDone(fail)]
    /\ UNCHANGED <<store, w, rd, ret, last, env, w2>>

\* Once.doSlow returns: the mutex is released, EnsureIndex returns err
IndexUnlock(c) ==
    /\ idx.pc[c] = "unlock"
    /\ idx.mu = c
    /\ idx' = [idx EXCEPT !.mu = 0, !.pc[c] = "returned"]
    /\ UNCHANGED <<store, w, rd, ret, last, env, w2>>

(* ------------------------------ specification ------------------------- *)

\* a Store on an empty collection, no call made yet
Start(e) ==
    /\ store = {}
    /\ w = WIdle
    /\ w2 = [WIdle EXCEPT !.gen = MaxWrites]
    /\ rd = RdIdle
    /\ ret = RetNone
    /\ last = [i \in BlobIDs |-> Never]
    /\ idx = [done |-> FALSE, mu |-> 0, pc |-> [c \in Callers |-> "idle"],
              err |-> [c \in Callers |-> "none"], requests |-> 0, inflight |-> 0,
              created |-> FALSE, failed |-> FALSE]
    /\ env = e

WriteStep ==
    \/ WriteReadChunk
    \/ \E fail \in Fails(env) : WriteUpsert(fail)
    \/ \E fail \in Fails(env) : WriteDelete(fail)

Worker ==
    \/ \E fail \in Fails(env) : WorkerDecode(fail)
    \/ WorkerWriteFails
    \/ \E more \in BOOLEAN, fail \in Fails(env) : WorkerNext(more, fail)
    \/ WorkerCloseCursor
    \/ WorkerClosePipe

Consumer ==
    \/ \E k \in 1..MaxBuf : PipeTransfer(k)
    \/ ConsumerEOF
    \/ ConsumerClose

Calls ==
    \/ \E id \in env.ids, data \in Readers(StreamEnds(env)), c \in ChunkSizes :
          WriteCall(id, data, c)
    \/ \E ids \in SUBSET env.ids, fail \in Fails(env) : Remove(ids, fail)
    \/ \E id \in env.ids, fail \in Fails(env) : Size(id, fail)
    \/ \E id \in env.ids, fail \in Fails(env) : ReadCall(id, fail)

\* The store used by one client whose calls follow one another; the
\* goroutine of a Read runs beside the consumer of its stream.  No store
\* call and no input stream fails, and no context is cancelled.
Init == Start([failures |-> FALSE, streams |-> FALSE,
               writes |-> MaxWrites, ids |-> BlobIDs])

Next == Calls \/ WriteStep \/ Worker \/ Consumer

Spec == Init /\ [][Next]_vars

\* EnsureIndex called from several goroutines on one Store
IndexInit == Start([failures |-> TRUE, streams |-> FALSE,
                    writes |-> 0, ids |-> {}])

IndexNext ==
    \/ \E c \in Callers : IndexCall(c)
    \/ \E c \in Callers : IndexDo(c)
    \/ \E c \in Callers : IndexLock(c)
    \/ \E c \in Callers, fail \in Fails(env) : IndexCreateOne(c, fail)
    \/ \E c \in Callers : IndexUnlock(c)

IndexSpec == IndexInit /\ [][IndexNext]_vars

\* One blob is written and then read, and the context of a Read may be
\* cancelled while its stream is open.
ReadInit == Start([failures |-> FALSE, streams |-> FALSE,
                   writes |-> 1, ids |-> BlobIDs])

ReadNext == Next \/ CancelCtx

ReadSpec == ReadInit /\ [][ReadNext]_vars

\* Writes whose input stream or store calls may fail, each followed by the
\* next call of the same client; Size and Remove look at what they left.
FailInit == Start([failures |-> TRUE, streams |-> TRUE,
                   writes |-> MaxWrites, ids |-> {"a"}])

FailNext ==
    \/ \E id \in env.ids, data \in Readers(StreamEnds(env)), c \in ChunkSizes :
          WriteCall(id, data, c)
    \/ WriteStep
    \/ \E id \in env.ids, fail \in Fails(env) : Size(id, fail)
    \/ \E ids \in SUBSET env.ids, fail \in Fails(env) : Remove(ids, fail)

FailSpec == FailInit /\ [][FailNext]_vars

\* One blob is written and then read while the calls made to the store,
\* those of Read and of its goroutine among them, may fail.
ReadFailInit == Start([failures |-> TRUE, streams |-> FALSE,
                       writes |-> 1, ids |-> {"a"}])

ReadFailSpec == ReadFailInit /\ [][Next]_vars

\* Two goroutines write through one Store, each call of one interleaved
\* step by step with the call of the other; store calls may fail.
WritersInit == Start([failures |-> TRUE, streams |-> FALSE,
                      writes |-> 1, ids |-> BlobIDs])

Write2Step ==
    \/ Write2ReadChunk
    \/ \E fail \in Fails(env) : Write2Upsert(fail)
    \/ \E fail \in Fails(env) : Write2Delete(fail)

WritersNext ==
    \/ \E id \in env.ids, data \in Readers(StreamEnds(env)), c \in ChunkSizes :
          WriteCall(id, data, c)
    \/ WriteStep
    \/ \E id \in env.ids, data \in Readers(StreamEnds(env)), c \in ChunkSizes :
          Write2Call(id, data, c)
    \/ Write2Step

WritersSpec == WritersInit /\ [][WritersNext]_vars

\* The goroutine of a Read is scheduled as long as it can take a step, and
\* every store call it makes returns.  Nothing is assumed of the consumer.
FairSpec == ReadSpec /\ WF_vars(Worker)

(* ------------------------------ properties ---------------------------- *)

StreamOpen == rd.call = "handle"

\* the Read in rd was made on a blob whose last change is a Write that
\* returned nil, and neither the context nor the cursor ended the stream early
ReadOfWritten ==
    IF rd.call = "none" THEN FALSE
    ELSE /\ rd.expect.op = "written"
         /\ (rd.call = "handle" => ~rd.cancelled /\ ~rd.cursorErr)

\* the Read in rd was drained to io.EOF
Drained == IF rd.call = "handle" THEN rd.eof ELSE FALSE

\* C1: after a Write(id, B) that returned nil, a Read(id) with nothing done to
\* id in between returns a stream that, drained to io.EOF, gave exactly B.
RoundTrip ==
    ReadOfWritten =>
        /\ rd.call = "handle"
        /\ Drained => rd.got = rd.expect.data

\* C1, for the inputs of at least one byte
RoundTripNonEmpty ==
    (ReadOfWritten /\ rd.expect.data # <<>>) =>
        /\ rd.call = "handle"
        /\ Drained => rd.got = rd.expect.data

RoundTripNonEmptyWitness ==
    /\ ReadOfWritten /\ Drained
    /\ Len(rd.expect.data) = MaxLen
    /\ Len(rd.rows) = 2

\* C2: after a Write(id, B) that returned nil, Size(id) with nothing done to
\* id in between returns len(B) and no error.
SizeCorrect ==
    (ret.op = "Size" /\ last[ret.id].op = "written") =>
        ret.err = "nil" /\ ret.n = Len(last[ret.id].data)

\* C2, for the inputs of at least one byte
SizeCorrectNonEmpty ==
    (ret.op = "Size" /\ last[ret.id].op = "written" /\ last[ret.id].data # <<>>) =>
        ret.err = "nil" /\ ret.n = Len(last[ret.id].data)

\* the number of segments a Write of n bytes with chunk size c emits
SegCount(n, c) == (n + c - 1) \div c

\* the Write in w returned nil after a longer Write to the same id had
\* returned nil, and nothing was done to the id since
ShorterRewrite ==
    /\ w.pc = "done" /\ w.result = "nil"
    /\ w.prev.op = "written"
    /\ w.input.len < Len(w.prev.data)
    /\ last[w.id].op = "written"

\* C3: once Write(id, B2) returned after a Write(id, B1) with B2 shorter than
\* B1, id has no segment with seq >= the number of segments of B2, a Read(id)
\* gives exactly B2 and Size(id) returns len(B2).
Truncation ==
    ShorterRewrite =>
        /\ \A s \in SegmentsOf(store, w.id) :
              s.Seq < SegCount(w.input.len, EffectiveChunkSize(w.chunk))
        /\ (IF rd.call = "none" THEN FALSE ELSE rd.id = w.id /\ ~rd.cancelled) =>
              /\ rd.call = "handle"
              /\ Drained => rd.got = InputBytes(w)
        /\ (ret.op = "Size" /\ ret.id = w.id) =>
              ret.err = "nil" /\ ret.n = w.input.len

\* C3, when the shorter input has at least one byte
TruncationNonEmpty == (ShorterRewrite /\ w.input.len > 0) => Truncation

TruncationNonEmptyWitness ==
    /\ ShorterRewrite /\ w.input.len > 0
    /\ ReadOfWritten /\ Drained
    /\ Len(w.prev.data) = MaxLen

\* the Write in w was given nil or a stream of zero bytes, and nothing was
\* done to its id since it returned
EmptyWritten ==
    /\ w.pc = "done"
    /\ w.input.nil \/ (w.input.len = 0 /\ w.input.end = "EOF")
    /\ last[w.id].op \in {"written", "failed"}

\* C4: a Write of nil or of zero bytes returns nil and leaves one segment,
\* seq 0, start 0, n 0; Read then gives a stream that ends after zero bytes
\* and Size returns 0.
EmptyWrite ==
    EmptyWritten =>
        /\ w.result = "nil"
        /\ SegmentsOf(store, w.id) = {blobSegment(w.id, 0, <<>>, 0, 0)}
        /\ (IF rd.call = "none" THEN FALSE ELSE rd.id = w.id) =>
              /\ rd.call = "handle"
              /\ Drained => rd.got = <<>>
        /\ (ret.op = "Size" /\ ret.id = w.id) => ret.err = "nil" /\ ret.n = 0

\* what the code does on a stream of zero bytes: no segment of the id is left
EmptyWriteRemoves ==
    (EmptyWritten /\ ~w.input.nil) =>
        w.result = "nil" /\ SegmentsOf(store, w.id) = {}

\* C5: Read and Size return ErrNotFound exactly when the collection holds no
\* segment of the id when they are called, so for an id never written and for
\* one written and then removed.
NotFound ==
    /\ rd.call \in {"handle", "ErrNotFound"} =>
          /\ rd.call = "ErrNotFound" <=> SegmentsOf(store, rd.id) = {}
          /\ rd.expect.op \in {"never", "removed"} => rd.call = "ErrNotFound"
    /\ (ret.op = "Size" /\ ret.err \in {"nil", "ErrNotFound"}) =>
          /\ ret.err = "ErrNotFound" <=> SegmentsOf(store, ret.id) = {}
          /\ last[ret.id].op \in {"never", "removed"} => ret.err = "ErrNotFound"

\* Read returned ErrNotFound for the id that was written (at least a byte)
\* and then removed
NotFoundWitness ==
    /\ rd.call = "ErrNotFound"
    /\ rd.expect.op = "removed"
    /\ w.pc = "done" /\ w.result = "nil" /\ w.id = rd.id /\ w.input.len > 0

\* the lengths of the segments of id, in seq order
SegmentLengths(id) ==
    LET rows == SortAsc(SegmentsOf(store, id))
    IN [i \in 1..Len(rows) |-> Len(rows[i].Data)]

\* C6: a Write of k*C bytes that returned nil leaves k segments of C bytes;
\* one of k*C + r bytes, 0 < r < C, leaves k + 1, the last of r bytes.
SegmentBoundary ==
    (w.pc = "done" /\ w.result = "nil" /\ last[w.id].op = "written") =>
        LET c == EffectiveChunkSize(w.chunk)
            k == w.input.len \div c
            r == w.input.len % c
            rows == SortAsc(SegmentsOf(store, w.id))
        IN /\ Len(rows) = IF r = 0 THEN k ELSE k + 1
           /\ \A i \in 1..Len(rows) :
                 /\ rows[i].Seq = i - 1
                 /\ Len(rows[i].Data) = (IF i <= k THEN c ELSE r)
                 /\ rows[i].N = Len(rows[i].Data)

\* a Write of k*C + r bytes with k = 1 and r = 1 returned, over a longer blob
SegmentBoundaryWitness ==
    /\ w.pc = "done" /\ w.result = "nil" /\ last[w.id].op = "written"
    /\ w.chunk = MaxChunk /\ w.input.len = MaxChunk + 1
    /\ SegmentLengths(w.id) = <<MaxChunk, 1>>

\* the goroutine of the Read has returned and its cursor is closed
WorkerStopped ==
    IF rd.call = "handle" THEN rd.wpc = "done" /\ ~rd.cursorOpen ELSE FALSE

\* the consumer closed the handle before it saw the end of the stream
Released == IF rd.call = "handle" THEN rd.rdClosed /\ ~rd.eof ELSE FALSE

\* C7: once the consumer has closed the handle before the end of the stream,
\* the goroutine eventually closes its cursor and returns.
ReleaseStopsWorker == Released ~> WorkerStopped

\* the handle was closed with a segment half taken and a row still to come,
\* and the goroutine has returned
ReleaseStopsWorkerWitness ==
    /\ Released /\ WorkerStopped
    /\ rd.pending # <<>> /\ rd.taken > 0
    /\ rd.pos < Len(rd.rows)

Cancelled == IF rd.call = "handle" THEN rd.cancelled ELSE FALSE

\* C8: once the context of a Read is cancelled, the goroutine eventually
\* closes its cursor and returns, whatever the consumer does.
CancelStopsWorker == Cancelled ~> WorkerStopped

\* the rows of the cursor the goroutine has decoded so far
Decoded ==
    SubSeq(rd.rows, 1, IF rd.wpc = "decode" THEN rd.pos - 1 ELSE rd.pos)

\* C9: what the consumer has received, followed by what is left of the
\* segment being handed over, is the payloads of the rows the cursor has
\* returned, in seq order: nothing lost, repeated or moved; bytes are left
\* over only while a segment is handed over or after the consumer closed.
ReadOrdering ==
    StreamOpen =>
        /\ \A i \in 1..Len(rd.rows), j \in 1..Len(rd.rows) :
              i < j => rd.rows[i].Seq < rd.rows[j].Seq
        /\ rd.got \o rd.pending
              = Flatten([i \in 1..Len(Decoded) |-> Decoded[i].Data])
        /\ rd.pending # <<>> => rd.wpc = "write" \/ rd.rdClosed
        /\ rd.eof => rd.pending = <<>>

\* a stream of two segments, the first of a full chunk, was drained
ReadOrderingWitness ==
    /\ StreamOpen /\ rd.eof
    /\ Len(rd.rows) = 2 /\ Len(rd.rows[1].Data) = MaxChunk
    /\ rd.got = Flatten([i \in 1..2 |-> rd.rows[i].Data])

\* C10: the index creation request is sent at most once on a Store, also
\* after it failed, and two are never in flight together.
IndexOnce == idx.requests <= 1 /\ idx.inflight <= 1

\* every goroutine has returned from EnsureIndex and the one request failed
IndexOnceWitness ==
    /\ \A c \in Callers : idx.pc[c] = "returned"
    /\ idx.requests = 1 /\ idx.failed

\* the Write in w has failed: its stream reported an error of its own, or it
\* returned the error of an upsert
WriteFailed(x) ==
    \/ x.sawErr # "none"
    \/ x.pc = "done" /\ x.result = "StoreErr" /\ x.deletes = 0

\* C11: in the step in which the input stream reports an error other than
\* io.EOF, or an upsert fails, Write returns that error and leaves the store
\* as it is; from then on the same Write makes no upsert and no delete.
WriteAborts ==
    [][/\ (w.sawErr = "none" /\ w'.sawErr # "none") =>
             w'.pc = "done" /\ w'.result = w'.sawErr /\ store' = store
       /\ (w.pc = "upsert" /\ w'.pc = "done") =>
             w'.result = "StoreErr" /\ store' = store
       /\ (WriteFailed(w) /\ w'.gen = w.gen) =>
             /\ w'.pc = "done" /\ w'.result = w.result
             /\ w'.upserts = w.upserts /\ w'.deletes = w.deletes]_vars

\* C11, for the streams that do not report io.ErrUnexpectedEOF themselves
WriteAbortsOtherErrors ==
    [][w'.input.end # "ErrUnexpectedEOF" =>
         /\ (w.sawErr = "none" /\ w'.sawErr # "none") =>
               w'.pc = "done" /\ w'.result = w'.sawErr /\ store' = store
         /\ (w.pc = "upsert" /\ w'.pc = "done") =>
               w'.result = "StoreErr" /\ store' = store
         /\ (WriteFailed(w) /\ w'.gen = w.gen) =>
               /\ w'.pc = "done" /\ w'.result = w.result
               /\ w'.upserts = w.upserts /\ w'.deletes = w.deletes]_vars

\* a Write over a stored blob returned the error of its stream after one
\* upsert, and the client has made its next call
WriteAbortsOtherErrorsWitness ==
    /\ w.pc = "done" /\ w.sawErr = "Err" /\ w.result = "Err"
    /\ w.upserts = 1 /\ w.prev.op = "written"
    /\ ret.op = "Size"

\* C12: when the cursor of an open stream has failed (cursor.Next or
\* cursor.Decode returned an error), the consumer does not see the normal end
\* of the stream.
ReadReportsFailure ==
    IF rd.call = "handle" THEN rd.cursorErr => ~rd.eof ELSE TRUE

\* C13: a Remove(ids...) returns nil, leaves no segment of an id in ids and
\* leaves the segments of every other blob as they were; with zero ids it
\* makes no store call.
RemoveFrame ==
    [][IF ret'.op = "Remove" /\ (ret' # ret \/ store' # store)
       THEN /\ ret'.err = "nil"
            /\ \A s \in store' : s.ID \notin ret'.ids
            /\ \A id \in BlobIDs \ ret'.ids :
                  SegmentsOf(store', id) = SegmentsOf(store, id)
            /\ ret'.ids = {} => ret'.calls = 0 /\ store' = store
            /\ ret'.ids # {} => ret'.calls = 1
       ELSE TRUE]_vars

\* the blob written last was removed while another blob is stored, and
\* nothing of the removed blob is left
RemoveFrameWitness ==
    /\ ret.op = "Remove"
    /\ w.pc = "done" /\ w.result = "nil" /\ w.input.len > 0
    /\ ret.ids = {w.id}
    /\ SegmentsOf(store, w.id) = {}
    /\ \E id \in BlobIDs \ {w.id} : SegmentsOf(store, id) # {}

\* a Remove of ids that have no segment returned
RemoveAbsentWitness ==
    /\ ret.op = "Remove" /\ ret.ids # {} /\ ret.err = "nil"
    /\ w.gen = 0

\* the Write in w returned nil on a blob that an aborted Write had left
\* behind, and nothing was done to the blob since
Recovered ==
    /\ w.pc = "done" /\ w.result = "nil"
    /\ w.prev.op = "failed"
    /\ last[w.id].op = "written"

\* the blob of w holds the bytes of w, in segments numbered from 0, and a
\* Size of it that reached the store returned their number
HoldsInput ==
    LET rows == SortAsc(SegmentsOf(store, w.id))
    IN /\ \A i \in 1..Len(rows) : rows[i].Seq = i - 1
       /\ Flatten([i \in 1..Len(rows) |-> rows[i].Data]) = InputBytes(w)
       /\ IF ret.op = "Size"
          THEN (ret.id = w.id /\ ret.err # "StoreErr") =>
                   ret.err = "nil" /\ ret.n = w.input.len
          ELSE TRUE

\* C14: a Write(id, B) that returns nil after aborted Writes to id leaves
\* exactly the segments of B, and Size(id) returns len(B).
Recovery == Recovered => HoldsInput

\* C14, for the inputs of at least one byte
RecoveryNonEmpty == (Recovered /\ w.input.len > 0) => HoldsInput

\* the last Write the client makes, of one byte, returned nil on a blob that
\* an aborted Write had left behind, and Size returned
RecoveryNonEmptyWitness ==
    /\ Recovered /\ w.input.len = 1
    /\ w.gen = MaxWrites
    /\ ret.op = "Size" /\ ret.err = "nil"

\* the number of bytes in the first i rows of the cursor of the Read
BytesUpTo(i) == Len(Flatten([j \in 1..i |-> rd.rows[j].Data]))

\* the rows the goroutine has fetched whose bytes the consumer has not all taken
Unconsumed == {i \in 1..rd.pos : BytesUpTo(i) > Len(rd.got)}

\* C15: the goroutine of a Read holds at most one row it has fetched and the
\* consumer has not taken in full, and it is at cursor.Next, or past it with
\* a new row, only when every byte of the rows before was taken.
Backpressure ==
    StreamOpen =>
        /\ Cardinality(Unconsumed) <= 1
        /\ rd.wpc = "next" => Len(rd.got) = BytesUpTo(rd.pos)
        /\ rd.wpc = "decode" => Len(rd.got) = BytesUpTo(rd.pos - 1)

\* the first segment was taken in full and the second is being handed over,
\* with a row still in the cursor
BackpressureWitness ==
    /\ StreamOpen /\ ~rd.rdClosed
    /\ rd.pos = 2 /\ rd.wpc = "write" /\ rd.pending # <<>>
    /\ Len(rd.got) = 1
    /\ Len(rd.rows) = 3

\* the segments of id are numbered 0..k-1, the first starts at offset 0, each
\* starts where the one before ends, n is the length of the payload, and
\* no payload is longer than c
LaidOut(id, c) ==
    LET rows == SortAsc(SegmentsOf(store, id))
    IN \A i \in 1..Len(rows) :
          /\ rows[i].Seq = i - 1
          /\ rows[i].Start = (IF i = 1 THEN 0
                              ELSE rows[i - 1].Start + rows[i - 1].N)
          /\ rows[i].N = Len(rows[i].Data)
          /\ rows[i].N <= c

\* C16: whenever the last thing done to a blob is a Write that returned nil,
\* its segments have seq 0..k-1, contiguous start offsets from 0, n equal to
\* the payload length, and payloads no longer than the chunk size of that
\* Write (known for the blob of the latest Write).
SegmentLayout ==
    \A id \in BlobIDs :
        last[id].op = "written" =>
            LaidOut(id, IF id = w.id THEN EffectiveChunkSize(w.chunk)
                        ELSE MaxLen)

\* a Write of a full chunk and one byte returned nil on a blob that an
\* aborted Write with another chunk size had left behind
SegmentLayoutWitness ==
    /\ w.pc = "done" /\ w.result = "nil" /\ last[w.id].op = "written"
    /\ w.prev.op = "failed"
    /\ SegmentLengths(w.id) = <<MaxChunk, 1>>

\* C17: a step of a Write call changes no segment of a blob other than the
\* blob of that call, whatever the other Write is doing.
WriteFrame ==
    [][/\ w' # w =>
             \A id \in BlobIDs \ {w'.id} :
                 SegmentsOf(store', id) = SegmentsOf(store, id)
       /\ w2' # w2 =>
             \A id \in BlobIDs \ {w2'.id} :
                 SegmentsOf(store', id) = SegmentsOf(store, id)]_vars

\* the second Write truncated its blob and returned while the first, on
\* another blob, had stored a segment past that point and was still running
WriteFrameWitness ==
    /\ w.pc = "read" /\ w.seq = 2
    /\ w2.pc = "done" /\ w2.result = "nil" /\ w2.deletes = 1 /\ w2.seq = 1
    /\ w2.id # w.id
    /\ Len(SegmentLengths(w.id)) = 2

\* C18: a Size that has returned has closed its cursor; a Read that returned
\* ErrNotFound has closed its cursor; the cursor of an open stream is closed
\* before the consumer can see the end of the stream.
CursorsClosed ==
    /\ IF ret.op = "Size" THEN ~ret.cursorOpen ELSE TRUE
    /\ IF rd.call = "ErrNotFound" THEN ~rd.cursorOpen ELSE TRUE
    /\ IF rd.call = "handle" THEN rd.wrClosed => ~rd.cursorOpen ELSE TRUE

\* C18, for the cursors of Read and for those of a Size that found no segment
CursorsClosedRead ==
    /\ IF ret.op = "Size" THEN ret.err = "ErrNotFound" => ~ret.cursorOpen
       ELSE TRUE
    /\ IF rd.call = "ErrNotFound" THEN ~rd.cursorOpen ELSE TRUE
    /\ IF rd.call = "handle" THEN rd.wrClosed => ~rd.cursorOpen ELSE TRUE

\* C19: an EnsureIndex call that has returned nil implies that the index was
\* created through this Store.
IndexSuccess ==
    \A c \in Callers :
        (idx.pc[c] = "returned" /\ idx.err[c] = "nil") => idx.created

\* C19 amended: a call that returned nil found the creation attempt
\* finished, so the index exists unless that attempt failed; a failed attempt
\* is reported to one call, the one that made it, and leaves no index.
IndexOutcome ==
    /\ \A c \in Callers :
          (idx.pc[c] = "returned" /\ idx.err[c] = "nil" /\ ~idx.failed)
              => idx.created
    /\ \A c \in Callers : idx.err[c] = "StoreErr" => idx.failed
    /\ idx.failed =>
          /\ ~idx.created
          /\ Cardinality({c \in Callers : idx.err[c] = "StoreErr"}) = 1

\* the creation attempt failed: the call that made it returned the error and
\* another call returned nil
IndexOutcomeWitness ==
    \E c \in Callers, d \in Callers :
        /\ idx.pc[c] = "returned" /\ idx.err[c] = "StoreErr"
        /\ idx.pc[d] = "returned" /\ idx.err[d] = "nil"

\* the Write in w has made no more upserts than its input has chunks, at
\* most one of them shorter than the chunk size, and at most one delete
WithinBound ==
    LET c == EffectiveChunkSize(w.chunk)
    IN /\ w.upserts <= SegCount(w.input.len, c)
       /\ w.deletes <= 1
       /\ Cardinality({s \in SegmentsOf(store, w.id) :
                          s.Seq < w.seq /\ s.N < c}) <= 1

\* C20: a Write whose stream ends, with io.EOF or with any error, makes at
\* most ceil(len / C) upserts, at most one of them shorter than C, and at
\* most one delete, so it returns after finitely many steps.
WriteBounded == (w.pc # "idle" /\ ~w.input.nil) => WithinBound

\* C20, for the streams that do not report io.ErrUnexpectedEOF themselves
WriteBoundedOtherStreams ==
    (w.pc # "idle" /\ ~w.input.nil /\ w.input.end # "ErrUnexpectedEOF")
        => WithinBound

\* a Write of a stream that ends in an error other than io.ErrUnexpectedEOF
\* returned it after the upsert of a full chunk
WriteBoundedOtherStreamsWitness ==
    /\ w.pc = "done" /\ w.input.end = "Err" /\ w.result = "Err"
    /\ w.input.len = MaxLen /\ w.chunk = MaxChunk /\ w.upserts = 1

\* a Write of a stream of no byte that reports io.ErrUnexpectedEOF has made
\* MaxUpserts upserts of empty segments and is about to make another
WriteRunsOn ==
    /\ w.pc = "upsert" /\ w.upserts = MaxUpserts
    /\ w.input.len = 0 /\ w.buflen = 0

====
